---- MODULE Spec2Model ----
(***************************************************************************)
(* Booking lifecycle of the Rentify backend: the booking routes            *)
(* (backend/routes/bookings.js, both route sets the file holds), the       *)
(* notification helpers (backend/routes/notifications.js) and the Booking  *)
(* schema (backend/models/Booking.js), over the bookings and notifications *)
(* collections.                                                            *)
(*                                                                         *)
(* Every handler is a pure operator from (store, request) to a result      *)
(* record [code, msg, bookings, nextId, created]; the action of a handler  *)
(* applies its result to the collections.  guestName, guestEmail,          *)
(* guestPhone and specialRequests are free text that no branch of the      *)
(* handlers reads; they are taken as present and well formed.              *)
(***************************************************************************)
EXTENDS Integers, Sequences, FiniteSets, Bags, TLC

VARIABLES bookings, nextId, notifications, reqs, listings

vars == <<bookings, nextId, notifications, reqs, listings>>

(***************************************************************************)
(* Bound of the model: the dates of a request.                             *)
(***************************************************************************)
MaxDate == 3

Dates == 1..MaxDate

(***************************************************************************)
(* Users and listings: fixed collections the booking routes only read.     *)
(***************************************************************************)
Anonymous == "anon"
NoUser == "null"
Users == {"g1", "h1", "h2", "a1", "a2"}
Callers == {"g1", "h1", "h2", "a1", Anonymous}
\* Who books what in the explored runs: a plain user and the listing's own host
\* on L1, an admin on L2.
BookingPairs == {<<"g1", "L1">>, <<"h1", "L1">>, <<"a1", "L2">>}

Role ==
  [u \in Users |-> IF u \in {"a1", "a2"} THEN "admin"
                   ELSE IF u \in {"h1", "h2"} THEN "host" ELSE "user"]

AdminSeq == <<"a1", "a2">>

Listings ==
  [L1 |-> [host |-> "h1", status |-> "active", maxGuests |-> 1],
   L2 |-> [host |-> "h2", status |-> "active", maxGuests |-> 2],
   L3 |-> [host |-> "h2", status |-> "inactive", maxGuests |-> 2],
   L4 |-> [host |-> "h1", status |-> "pending", maxGuests |-> 2]]

ListingIds == DOMAIN Listings
MissingListing == "L0"
MalformedId == "bad"
ListingInputs == ListingIds \cup {MissingListing, MalformedId}

GuestInputs == {0, 2}
PriceInputs == {-1, 10}

BookingIdSeq == <<"b1", "b2">>
BookingIds == {BookingIdSeq[i] : i \in 1..Len(BookingIdSeq)}

\* Room for the notifications of creating every booking id of the model.
MaxNotifs == Len(BookingIdSeq) * (1 + Len(AdminSeq))

Statuses == {"pending", "confirmed", "cancelled", "completed", "refunded"}
PaymentStatuses == {"pending", "paid", "refunded"}
NoStatus == "none"
BogusStatus == "bogus"
StatusInputs == Statuses \cup {NoStatus, BogusStatus}

(***************************************************************************)
(* Results and responses.                                                  *)
(***************************************************************************)
Res(code, msg, bks, nid, created) ==
  [code |-> code, msg |-> msg, bookings |-> bks, nextId |-> nid, created |-> created]

Notif(recipient, sender, type) ==
  [recipient |-> recipient, sender |-> sender, type |-> type]

HasFreeId(nid) == nid <= Len(BookingIdSeq)

(***************************************************************************)
(* The conflict query of check-availability and of both create handlers.   *)
(***************************************************************************)
\* The query with its first clause closed at the check-out end.
DateClausesInclusive(b, ci, co) ==
  \/ b.checkIn <= ci /\ b.checkOut >= ci
  \/ b.checkIn < co /\ b.checkOut >= co
  \/ b.checkIn >= ci /\ b.checkOut <= co

DateClauses(b, ci, co) ==
  \/ b.checkIn <= ci /\ b.checkOut > ci
  \/ b.checkIn < co /\ b.checkOut >= co
  \/ b.checkIn >= ci /\ b.checkOut <= co

\* The query without its status filter.
ConflictingBookingsAnyStatus(bks, l, ci, co) ==
  {id \in DOMAIN bks : bks[id].listing = l /\ DateClauses(bks[id], ci, co)}

ConflictingBookings(bks, l, ci, co) ==
  {id \in DOMAIN bks :
     /\ bks[id].listing = l
     /\ bks[id].status \in {"pending", "confirmed"}
     /\ DateClauses(bks[id], ci, co)}

(***************************************************************************)
(* The Booking schema: path validators and the pre('save') hook.           *)
(***************************************************************************)
SchemaValid(b) ==
  /\ b.listing # NoUser
  /\ b.host # NoUser
  /\ b.guests >= 1
  /\ b.totalPrice >= 0
  /\ b.status \in Statuses
  /\ b.paymentStatus \in PaymentStatuses

PreSave(b) == ~(b.checkOut <= b.checkIn)

(***************************************************************************)
(* notifications.js                                                        *)
(***************************************************************************)
NotifyAdmins(sender, type) ==
  [i \in 1..Len(AdminSeq) |-> Notif(AdminSeq[i], sender, type)]

SendBookingNotification(b, sender, action) ==
  LET host == Listings[b.listing].host
      toGuest(type) == IF b.guest = NoUser THEN <<>> ELSE <<Notif(b.guest, sender, type)>>
  IN  CASE action = "booked" -> <<Notif(host, sender, "booking")>>
        [] action = "confirmed" -> toGuest("confirmation")
        [] action = "cancelled" -> toGuest("cancellation") \o <<Notif(host, sender, "cancellation")>>
        [] OTHER -> <<>>

(***************************************************************************)
(* POST /bookings/check-availability                                       *)
(***************************************************************************)
CheckAvailabilityResult(bks, nid, caller, l, ci, co) ==
  IF caller = Anonymous THEN Res(401, "no-token", bks, nid, <<>>)
  ELSE IF l = MalformedId THEN Res(400, "validation", bks, nid, <<>>)
  ELSE IF co <= ci THEN Res(400, "dates", bks, nid, <<>>)
  ELSE IF l \notin ListingIds \/ Listings[l].status # "active"
       THEN Res(404, "listing", bks, nid, <<>>)
  ELSE IF ConflictingBookings(bks, l, ci, co) # {}
       THEN Res(200, "unavailable", bks, nid, <<>>)
  ELSE Res(200, "available", bks, nid, <<>>)

(***************************************************************************)
(* POST /bookings, first route set: everything up to the conflict query    *)
(* (CreateCheck), then the insert and the notifications (CreateInsert).    *)
(***************************************************************************)
\* The checks without the conflict query.
CreateCheckIgnoringConflict(bks, nid, caller, l, ci, co, g, price) ==
  IF caller = Anonymous THEN Res(401, "no-token", bks, nid, <<>>)
  ELSE IF l = MalformedId \/ g < 1 THEN Res(400, "validation", bks, nid, <<>>)
  ELSE IF l \notin ListingIds \/ Listings[l].status # "active"
       THEN Res(404, "listing", bks, nid, <<>>)
  ELSE IF co <= ci THEN Res(400, "dates", bks, nid, <<>>)
  ELSE Res(0, "continue", bks, nid, <<>>)

\* The checks with a listing lookup that does not read the listing's status.
CreateCheckAnyListingStatus(bks, nid, caller, l, ci, co, g, price) ==
  IF caller = Anonymous THEN Res(401, "no-token", bks, nid, <<>>)
  ELSE IF l = MalformedId \/ g < 1 THEN Res(400, "validation", bks, nid, <<>>)
  ELSE IF l \notin ListingIds THEN Res(404, "listing", bks, nid, <<>>)
  ELSE IF co <= ci THEN Res(400, "dates", bks, nid, <<>>)
  ELSE IF ConflictingBookings(bks, l, ci, co) # {}
       THEN Res(400, "conflict", bks, nid, <<>>)
  ELSE Res(0, "continue", bks, nid, <<>>)

CreateCheck(bks, nid, caller, l, ci, co, g, price) ==
  IF caller = Anonymous THEN Res(401, "no-token", bks, nid, <<>>)
  ELSE IF l = MalformedId \/ g < 1 THEN Res(400, "validation", bks, nid, <<>>)
  ELSE IF l \notin ListingIds \/ Listings[l].status # "active"
       THEN Res(404, "listing", bks, nid, <<>>)
  ELSE IF co <= ci THEN Res(400, "dates", bks, nid, <<>>)
  ELSE IF ConflictingBookings(bks, l, ci, co) # {}
       THEN Res(400, "conflict", bks, nid, <<>>)
  ELSE Res(0, "continue", bks, nid, <<>>)

NewBooking(caller, l, ci, co, g, price) ==
  [listing |-> l, host |-> Listings[l].host, guest |-> caller,
   checkIn |-> ci, checkOut |-> co, guests |-> g, totalPrice |-> price,
   status |-> "pending", paymentStatus |-> "pending"]

\* The insert without the broadcast to the admins.
CreateInsertNoBroadcast(bks, nid, caller, l, ci, co, g, price) ==
  LET b == NewBooking(caller, l, ci, co, g, price)
      id == BookingIdSeq[nid]
  IN  IF ~SchemaValid(b) \/ ~PreSave(b) THEN Res(500, "server", bks, nid, <<>>)
      ELSE Res(201, "created", (id :> b) @@ bks, nid + 1,
               SendBookingNotification(b, caller, "booked"))

\* The insert as one step with the conflict query.
CreateInsertRechecked(bks, nid, caller, l, ci, co, g, price) ==
  LET b == NewBooking(caller, l, ci, co, g, price)
      id == BookingIdSeq[nid]
  IN  IF ConflictingBookings(bks, l, ci, co) # {} THEN Res(400, "conflict", bks, nid, <<>>)
      ELSE IF ~SchemaValid(b) \/ ~PreSave(b) THEN Res(500, "server", bks, nid, <<>>)
      ELSE Res(201, "created", (id :> b) @@ bks, nid + 1,
               SendBookingNotification(b, caller, "booked") \o NotifyAdmins(caller, "booking"))

CreateInsert(bks, nid, caller, l, ci, co, g, price) ==
  LET b == NewBooking(caller, l, ci, co, g, price)
      id == BookingIdSeq[nid]
  IN  IF ~SchemaValid(b) \/ ~PreSave(b) THEN Res(500, "server", bks, nid, <<>>)
      ELSE Res(201, "created", (id :> b) @@ bks, nid + 1,
               SendBookingNotification(b, caller, "booked") \o NotifyAdmins(caller, "booking"))

CreateResult(bks, nid, caller, l, ci, co, g, price) ==
  LET c == CreateCheck(bks, nid, caller, l, ci, co, g, price)
  IN  IF c.code # 0 THEN c ELSE CreateInsert(bks, nid, caller, l, ci, co, g, price)

(***************************************************************************)
(* Saving a loaded booking document: validators, then the pre('save')      *)
(* hook; a rejected save throws and the handler answers 500.               *)
(***************************************************************************)
SaveOk(b) == SchemaValid(b) /\ PreSave(b)

IsAdmin(caller) == Role[caller] = "admin"
IsListingHost(b, caller) == Listings[b.listing].host = caller
IsGuest(b, caller) == b.guest # NoUser /\ b.guest = caller

(***************************************************************************)
(* PUT /bookings/:id, first route set                                      *)
(***************************************************************************)
\* The update without the comparison with the previous status.
UpdateResultAlwaysNotifies(bks, nid, caller, id, st) ==
  IF caller = Anonymous THEN Res(401, "no-token", bks, nid, <<>>)
  ELSE IF id \notin DOMAIN bks THEN Res(404, "booking", bks, nid, <<>>)
  ELSE IF ~IsAdmin(caller) /\ ~IsListingHost(bks[id], caller)
       THEN Res(403, "forbidden", bks, nid, <<>>)
  ELSE LET prev == bks[id].status
           b == [bks[id] EXCEPT !.status = IF st = NoStatus THEN prev ELSE st]
       IN  IF ~SaveOk(b) THEN Res(500, "server", bks, nid, <<>>)
           ELSE Res(200, "updated", [bks EXCEPT ![id] = b], nid,
                    IF b.status \in {"confirmed", "cancelled"}
                    THEN SendBookingNotification(b, caller, b.status)
                    ELSE <<>>)

UpdateResult(bks, nid, caller, id, st) ==
  IF caller = Anonymous THEN Res(401, "no-token", bks, nid, <<>>)
  ELSE IF id \notin DOMAIN bks THEN Res(404, "booking", bks, nid, <<>>)
  ELSE IF ~IsAdmin(caller) /\ ~IsListingHost(bks[id], caller)
       THEN Res(403, "forbidden", bks, nid, <<>>)
  ELSE LET prev == bks[id].status
           b == [bks[id] EXCEPT !.status = IF st = NoStatus THEN prev ELSE st]
       IN  IF ~SaveOk(b) THEN Res(500, "server", bks, nid, <<>>)
           ELSE Res(200, "updated", [bks EXCEPT ![id] = b], nid,
                    IF b.status # prev /\ b.status \in {"confirmed", "cancelled"}
                    THEN SendBookingNotification(b, caller, b.status)
                    ELSE <<>>)

(***************************************************************************)
(* DELETE /bookings/:id, first route set                                   *)
(***************************************************************************)
DeleteResult(bks, nid, caller, id) ==
  IF caller = Anonymous THEN Res(401, "no-token", bks, nid, <<>>)
  ELSE IF id \notin DOMAIN bks THEN Res(404, "booking", bks, nid, <<>>)
  ELSE IF ~IsListingHost(bks[id], caller) /\ ~IsGuest(bks[id], caller) /\ ~IsAdmin(caller)
       THEN Res(403, "forbidden", bks, nid, <<>>)
  ELSE IF bks[id].status = "cancelled" THEN Res(200, "cancelled", bks, nid, <<>>)
  ELSE LET b == [bks[id] EXCEPT !.status = "cancelled"]
       IN  IF ~SaveOk(b) THEN Res(500, "server", bks, nid, <<>>)
           ELSE Res(200, "cancelled", [bks EXCEPT ![id] = b], nid, <<>>)

(***************************************************************************)
(* DELETE /bookings/:id/delete                                             *)
(***************************************************************************)
\* The delete without its status test: the row is removed in one call.
AdminDeleteResultOneStep(bks, nid, caller, id) ==
  IF caller = Anonymous THEN Res(401, "no-token", bks, nid, <<>>)
  ELSE IF ~IsAdmin(caller) THEN Res(403, "admins-only", bks, nid, <<>>)
  ELSE IF id \notin DOMAIN bks THEN Res(404, "booking", bks, nid, <<>>)
  ELSE Res(200, "deleted", [i \in DOMAIN bks \ {id} |-> bks[i]], nid, <<>>)

\* The delete with a role test that turns away plain users only.
AdminDeleteResultHostsAllowed(bks, nid, caller, id) ==
  IF caller = Anonymous THEN Res(401, "no-token", bks, nid, <<>>)
  ELSE IF Role[caller] = "user" THEN Res(403, "admins-only", bks, nid, <<>>)
  ELSE IF id \notin DOMAIN bks THEN Res(404, "booking", bks, nid, <<>>)
  ELSE IF bks[id].status = "cancelled"
       THEN Res(200, "deleted", [i \in DOMAIN bks \ {id} |-> bks[i]], nid, <<>>)
  ELSE LET b == [bks[id] EXCEPT !.status = "cancelled"]
       IN  IF ~SaveOk(b) THEN Res(500, "server", bks, nid, <<>>)
           ELSE Res(200, "cancelled-first", [bks EXCEPT ![id] = b], nid, <<>>)

AdminDeleteResult(bks, nid, caller, id) ==
  IF caller = Anonymous THEN Res(401, "no-token", bks, nid, <<>>)
  ELSE IF ~IsAdmin(caller) THEN Res(403, "admins-only", bks, nid, <<>>)
  ELSE IF id \notin DOMAIN bks THEN Res(404, "booking", bks, nid, <<>>)
  ELSE IF bks[id].status = "cancelled"
       THEN Res(200, "deleted", [i \in DOMAIN bks \ {id} |-> bks[i]], nid, <<>>)
  ELSE LET b == [bks[id] EXCEPT !.status = "cancelled"]
       IN  IF ~SaveOk(b) THEN Res(500, "server", bks, nid, <<>>)
           ELSE Res(200, "cancelled-first", [bks EXCEPT ![id] = b], nid, <<>>)

(***************************************************************************)
(* PUT /bookings/:id/cancel                                                *)
(***************************************************************************)
\* The guest branch without its broadcast to the admins.
CancelNotificationsGuestNoBroadcast(b, caller) ==
  LET host == Listings[b.listing].host
      toGuest == IF b.guest = NoUser THEN <<>> ELSE <<Notif(b.guest, caller, "cancellation")>>
  IN  IF IsAdmin(caller) THEN toGuest \o <<Notif(host, caller, "cancellation")>>
      ELSE IF IsListingHost(b, caller) THEN toGuest \o NotifyAdmins(caller, "cancellation")
      ELSE IF IsGuest(b, caller) THEN <<Notif(host, caller, "cancellation")>>
      ELSE <<>>

\* The host branch notifying the host instead of the guest.
CancelNotificationsHostNotifiesHost(b, caller) ==
  LET host == Listings[b.listing].host
      toGuest == IF b.guest = NoUser THEN <<>> ELSE <<Notif(b.guest, caller, "cancellation")>>
  IN  IF IsAdmin(caller) THEN toGuest \o <<Notif(host, caller, "cancellation")>>
      ELSE IF IsListingHost(b, caller)
           THEN <<Notif(host, caller, "cancellation")>> \o NotifyAdmins(caller, "cancellation")
      ELSE IF IsGuest(b, caller)
           THEN <<Notif(host, caller, "cancellation")>> \o NotifyAdmins(caller, "cancellation")
      ELSE <<>>

\* The admin branch with a broadcast to the admins added.
CancelNotificationsAdminBroadcast(b, caller) ==
  LET host == Listings[b.listing].host
      toGuest == IF b.guest = NoUser THEN <<>> ELSE <<Notif(b.guest, caller, "cancellation")>>
  IN  IF IsAdmin(caller)
      THEN toGuest \o <<Notif(host, caller, "cancellation")>> \o NotifyAdmins(caller, "cancellation")
      ELSE IF IsListingHost(b, caller) THEN toGuest \o NotifyAdmins(caller, "cancellation")
      ELSE IF IsGuest(b, caller)
           THEN <<Notif(host, caller, "cancellation")>> \o NotifyAdmins(caller, "cancellation")
      ELSE <<>>

CancelNotifications(b, caller) ==
  LET host == Listings[b.listing].host
      toGuest == IF b.guest = NoUser THEN <<>> ELSE <<Notif(b.guest, caller, "cancellation")>>
  IN  IF IsAdmin(caller) THEN toGuest \o <<Notif(host, caller, "cancellation")>>
      ELSE IF IsListingHost(b, caller) THEN toGuest \o NotifyAdmins(caller, "cancellation")
      ELSE IF IsGuest(b, caller)
           THEN <<Notif(host, caller, "cancellation")>> \o NotifyAdmins(caller, "cancellation")
      ELSE <<>>

\* The cancel with the status saved before the caller is authorised.
CancelResultSaveBeforeAuth(bks, nid, caller, id) ==
  IF caller = Anonymous THEN Res(401, "no-token", bks, nid, <<>>)
  ELSE IF id \notin DOMAIN bks THEN Res(404, "booking", bks, nid, <<>>)
  ELSE LET b == [bks[id] EXCEPT !.status = "cancelled"]
       IN  IF ~SaveOk(b) THEN Res(500, "server", bks, nid, <<>>)
           ELSE IF ~IsAdmin(caller) /\ ~IsListingHost(bks[id], caller) /\ ~IsGuest(bks[id], caller)
                THEN Res(403, "forbidden", [bks EXCEPT ![id] = b], nid, <<>>)
           ELSE Res(200, "cancelled", [bks EXCEPT ![id] = b], nid, CancelNotifications(b, caller))

CancelResult(bks, nid, caller, id) ==
  IF caller = Anonymous THEN Res(401, "no-token", bks, nid, <<>>)
  ELSE IF id \notin DOMAIN bks THEN Res(404, "booking", bks, nid, <<>>)
  ELSE IF ~IsAdmin(caller) /\ ~IsListingHost(bks[id], caller) /\ ~IsGuest(bks[id], caller)
       THEN Res(403, "forbidden", bks, nid, <<>>)
  ELSE LET b == [bks[id] EXCEPT !.status = "cancelled"]
       IN  IF ~SaveOk(b) THEN Res(500, "server", bks, nid, <<>>)
           ELSE Res(200, "cancelled", [bks EXCEPT ![id] = b], nid, CancelNotifications(b, caller))

(***************************************************************************)
(* POST /bookings/:id/request-cancel                                       *)
(***************************************************************************)
\* The request with admins let through as well as the listing's host.
RequestCancelResultAdminAllowed(bks, nid, caller, id) ==
  IF caller = Anonymous THEN Res(401, "no-token", bks, nid, <<>>)
  ELSE IF id \notin DOMAIN bks THEN Res(404, "booking", bks, nid, <<>>)
  ELSE IF ~IsListingHost(bks[id], caller) /\ ~IsAdmin(caller)
       THEN Res(403, "hosts-only", bks, nid, <<>>)
  ELSE Res(200, "requested", bks, nid, NotifyAdmins(caller, "cancel-request"))

RequestCancelResult(bks, nid, caller, id) ==
  IF caller = Anonymous THEN Res(401, "no-token", bks, nid, <<>>)
  ELSE IF id \notin DOMAIN bks THEN Res(404, "booking", bks, nid, <<>>)
  ELSE IF ~IsListingHost(bks[id], caller) THEN Res(403, "hosts-only", bks, nid, <<>>)
  ELSE Res(200, "requested", bks, nid, NotifyAdmins(caller, "cancel-request"))

(***************************************************************************)
(* Second route set of bookings.js.  POST / runs without the auth          *)
(* middleware, so req.user is never set and guest is null; the document it *)
(* builds has no host.                                                     *)
(***************************************************************************)
NewBookingV2(l, ci, co, g, price) ==
  [listing |-> l, host |-> NoUser, guest |-> NoUser,
   checkIn |-> ci, checkOut |-> co, guests |-> g, totalPrice |-> price,
   status |-> "pending", paymentStatus |-> "pending"]

CreateResultV2(bks, nid, caller, l, ci, co, g, price) ==
  IF l = MalformedId \/ g < 1 THEN Res(400, "validation", bks, nid, <<>>)
  ELSE IF l \notin ListingIds \/ Listings[l].status # "active"
       THEN Res(404, "listing", bks, nid, <<>>)
  ELSE IF g > Listings[l].maxGuests THEN Res(400, "max-guests", bks, nid, <<>>)
  ELSE IF ConflictingBookings(bks, l, ci, co) # {}
       THEN Res(400, "conflict", bks, nid, <<>>)
  ELSE LET b == NewBookingV2(l, ci, co, g, price)
       IN  IF ~SaveOk(b) THEN Res(500, "server", bks, nid, <<>>)
           ELSE Res(201, "created", (BookingIdSeq[nid] :> b) @@ bks, nid + 1, <<>>)

NoDate == 0
NoHost == "none"

UpdateDoc(b, body) ==
  [b EXCEPT !.status = IF body.status = NoStatus THEN @ ELSE body.status,
            !.checkIn = IF body.checkIn = NoDate THEN @ ELSE body.checkIn,
            !.checkOut = IF body.checkOut = NoDate THEN @ ELSE body.checkOut,
            !.host = IF body.host = NoHost THEN @ ELSE body.host]

UpdateResultV2(bks, nid, caller, id, body) ==
  IF caller = Anonymous THEN Res(401, "no-token", bks, nid, <<>>)
  ELSE IF id \notin DOMAIN bks THEN Res(404, "booking", bks, nid, <<>>)
  ELSE IF ~IsListingHost(bks[id], caller) /\ ~IsGuest(bks[id], caller)
       THEN Res(403, "forbidden", bks, nid, <<>>)
  ELSE LET b == UpdateDoc(bks[id], body)
       IN  IF ~SchemaValid(b) THEN Res(500, "server", bks, nid, <<>>)
           ELSE Res(200, "updated", [bks EXCEPT ![id] = b], nid, <<>>)

DeleteResultV2(bks, nid, caller, id) ==
  IF caller = Anonymous THEN Res(401, "no-token", bks, nid, <<>>)
  ELSE IF id \notin DOMAIN bks THEN Res(404, "booking", bks, nid, <<>>)
  ELSE IF ~IsListingHost(bks[id], caller) /\ ~IsGuest(bks[id], caller)
       THEN Res(403, "forbidden", bks, nid, <<>>)
  ELSE LET b == [bks[id] EXCEPT !.status = "cancelled"]
       IN  IF ~SaveOk(b) THEN Res(500, "server", bks, nid, <<>>)
           ELSE Res(200, "cancelled", [bks EXCEPT ![id] = b], nid, <<>>)

(***************************************************************************)
(* GET /bookings/:id.  The refusal is the conjunction the handler tests: a *)
(* booking with a guest, who is not the caller, on a listing whose host is *)
(* not the caller.  The caller's role is not read.                         *)
(***************************************************************************)
GetBookingResult(bks, nid, caller, id) ==
  IF caller = Anonymous THEN Res(401, "no-token", bks, nid, <<>>)
  ELSE IF id \notin DOMAIN bks THEN Res(404, "booking", bks, nid, <<>>)
  ELSE IF /\ bks[id].guest # NoUser
          /\ bks[id].guest # caller
          /\ Listings[bks[id].listing].host # caller
       THEN Res(403, "forbidden", bks, nid, <<>>)
  ELSE Res(200, "booking", bks, nid, <<>>)

(***************************************************************************)
(* GET /bookings/host/bookings.  ls is the set of listings the Listing     *)
(* collection holds; data is the set of bookings returned.                 *)
(***************************************************************************)
HostBookingsResult(bks, nid, ls, caller) ==
  IF caller = Anonymous
  THEN [code |-> 401, bookings |-> bks, nextId |-> nid, created |-> <<>>, data |-> {}]
  ELSE IF Role[caller] # "host" /\ Role[caller] # "admin"
  THEN [code |-> 403, bookings |-> bks, nextId |-> nid, created |-> <<>>, data |-> {}]
  ELSE LET listingIds == IF Role[caller] = "host"
                         THEN {l \in ls : Listings[l].host = caller}
                         ELSE ls
       IN  [code |-> 200, bookings |-> bks, nextId |-> nid, created |-> <<>>,
            data |-> IF listingIds = {} THEN {}
                     ELSE {id \in DOMAIN bks : bks[id].listing \in listingIds}]

(***************************************************************************)
(* DELETE /listings/:id of listings.js: the listing's host removes the     *)
(* listing document; the bookings of the listing are not read.             *)
(***************************************************************************)
DeleteListingResult(ls, caller, l) ==
  IF caller = Anonymous THEN [code |-> 401, listings |-> ls]
  ELSE IF l = MalformedId THEN [code |-> 500, listings |-> ls]
  ELSE IF l \notin ls THEN [code |-> 404, listings |-> ls]
  ELSE IF Listings[l].host # caller THEN [code |-> 403, listings |-> ls]
  ELSE [code |-> 200, listings |-> ls \ {l}]

(***************************************************************************)
(* Applying a handler's result to the collections.  notifications is the   *)
(* collection as a bag of rows.                                            *)
(***************************************************************************)
RECURSIVE SeqToBag(_)
SeqToBag(s) ==
  IF s = <<>> THEN EmptyBag ELSE SetToBag({Head(s)}) (+) SeqToBag(Tail(s))

Apply(r) ==
  /\ BagCardinality(notifications) + Len(r.created) <= MaxNotifs
  /\ bookings' = r.bookings
  /\ nextId' = r.nextId
  /\ notifications' = notifications (+) SeqToBag(r.created)
  /\ UNCHANGED listings

(***************************************************************************)
(* Requests.  AllCreateRequests and AllCheckRequests are every request     *)
(* over the input sets; the actions take every well-formed request and,    *)
(* for each way of being malformed, one request malformed that way only    *)
(* (a rejected request leaves both collections as they are).               *)
(***************************************************************************)
ActiveListings == {l \in ListingIds : Listings[l].status = "active"}

AllCreateRequests ==
  [caller : Callers, listing : ListingInputs, checkIn : Dates, checkOut : Dates,
   guests : GuestInputs, totalPrice : PriceInputs]

WellFormedCreate(r) ==
  /\ r.caller # Anonymous
  /\ r.listing \in ActiveListings
  /\ r.checkIn < r.checkOut
  /\ r.guests >= 1
  /\ r.totalPrice >= 0

BaseCreate ==
  [caller |-> "g1", listing |-> "L1", checkIn |-> 1, checkOut |-> 2,
   guests |-> 2, totalPrice |-> 10]

CreateRequests ==
  {r \in AllCreateRequests : WellFormedCreate(r) /\ <<r.caller, r.listing>> \in BookingPairs}
  \cup {[BaseCreate EXCEPT !.caller = Anonymous]}
  \cup {[BaseCreate EXCEPT !.listing = l] : l \in ListingInputs \ ActiveListings}
  \cup {[BaseCreate EXCEPT !.checkIn = d, !.checkOut = e] : d \in {1, 2}, e \in {1}}
  \cup {[BaseCreate EXCEPT !.guests = 0]}
  \cup {[BaseCreate EXCEPT !.totalPrice = -1]}

Create(bks, nid, r) ==
  CreateResult(bks, nid, r.caller, r.listing, r.checkIn, r.checkOut, r.guests, r.totalPrice)

AllCheckRequests ==
  [caller : Callers, listing : ListingInputs, checkIn : Dates, checkOut : Dates]

BaseCheck == [caller |-> "g1", listing |-> "L1", checkIn |-> 1, checkOut |-> 2]

CheckRequests ==
  {r \in AllCheckRequests :
     r.caller # Anonymous /\ r.listing \in ActiveListings /\ r.checkIn < r.checkOut}
  \cup {[BaseCheck EXCEPT !.caller = Anonymous]}
  \cup {[BaseCheck EXCEPT !.listing = l] : l \in ListingInputs \ ActiveListings}
  \cup {[BaseCheck EXCEPT !.checkIn = d, !.checkOut = e] : d \in {1, 2}, e \in {1}}

Check(bks, nid, r) ==
  CheckAvailabilityResult(bks, nid, r.caller, r.listing, r.checkIn, r.checkOut)

CheckAvailability ==
  \E r \in CheckRequests :
    /\ Apply(Check(bookings, nextId, r))
    /\ UNCHANGED reqs

CreateBooking ==
  \E r \in CreateRequests :
    /\ HasFreeId(nextId)
    /\ Apply(Create(bookings, nextId, r))
    /\ UNCHANGED reqs

UpdateBooking ==
  \E caller \in Callers, id \in BookingIds, st \in StatusInputs :
    /\ Apply(UpdateResult(bookings, nextId, caller, id, st))
    /\ UNCHANGED reqs

DeleteBooking ==
  \E caller \in Callers, id \in BookingIds :
    /\ Apply(DeleteResult(bookings, nextId, caller, id))
    /\ UNCHANGED reqs

AdminDeleteBooking ==
  \E caller \in Callers, id \in BookingIds :
    /\ Apply(AdminDeleteResult(bookings, nextId, caller, id))
    /\ UNCHANGED reqs

CancelBooking ==
  \E caller \in Callers, id \in BookingIds :
    /\ Apply(CancelResult(bookings, nextId, caller, id))
    /\ UNCHANGED reqs

RequestCancel ==
  \E caller \in Callers, id \in BookingIds :
    /\ Apply(RequestCancelResult(bookings, nextId, caller, id))
    /\ UNCHANGED reqs

GetBooking ==
  \E caller \in Callers, id \in BookingIds :
    /\ Apply(GetBookingResult(bookings, nextId, caller, id))
    /\ UNCHANGED reqs

\* A create request as the handlers resolve it against the Listing collection:
\* Listing.findById finds no document for a deleted listing.
Lookup(ls, r) ==
  IF r.listing \in ListingIds /\ r.listing \notin ls
  THEN [r EXCEPT !.listing = MissingListing] ELSE r

CreateBookingListed ==
  \E r \in CreateRequests :
    /\ HasFreeId(nextId)
    /\ Apply(Create(bookings, nextId, Lookup(listings, r)))
    /\ UNCHANGED reqs

HostBookings ==
  \E caller \in Callers :
    /\ Apply(HostBookingsResult(bookings, nextId, listings, caller))
    /\ UNCHANGED reqs

DeleteListing ==
  \E caller \in Callers, l \in ListingInputs :
    /\ listings' = DeleteListingResult(listings, caller, l).listings
    /\ UNCHANGED <<bookings, nextId, notifications, reqs>>

CreateV2(bks, nid, r) ==
  CreateResultV2(bks, nid, r.caller, r.listing, r.checkIn, r.checkOut, r.guests, r.totalPrice)

AllUpdateBodies ==
  [status : StatusInputs, checkIn : Dates \cup {NoDate}, checkOut : Dates \cup {NoDate},
   host : Users \cup {NoHost}]

UpdateBodies ==
  {b \in AllUpdateBodies :
     /\ b.status \in {"confirmed", NoStatus, BogusStatus}
     /\ b.checkIn = NoDate /\ b.checkOut = NoDate /\ b.host = NoHost}
  \cup {b \in AllUpdateBodies :
          b.status = NoStatus /\ b.checkIn = NoDate /\ b.checkOut # NoDate /\ b.host = NoHost}
  \cup {b \in AllUpdateBodies :
          b.status = NoStatus /\ b.checkIn = NoDate /\ b.checkOut = NoDate /\ b.host = "h2"}

CreateBookingV2 ==
  \E r \in CreateRequests :
    /\ HasFreeId(nextId)
    /\ Apply(CreateV2(bookings, nextId, r))
    /\ UNCHANGED reqs

UpdateBookingV2 ==
  \E caller \in Callers, id \in BookingIds, body \in UpdateBodies :
    /\ Apply(UpdateResultV2(bookings, nextId, caller, id, body))
    /\ UNCHANGED reqs

DeleteBookingV2 ==
  \E caller \in Callers, id \in BookingIds :
    /\ Apply(DeleteResultV2(bookings, nextId, caller, id))
    /\ UNCHANGED reqs

(***************************************************************************)
(* Notification writes that throw.  Written(rows, k) is what is stored when *)
(* the write after the k-th row throws (k = Len(rows): none does).          *)
(* sendBookingNotification and notifyAdmins catch and log; the writes the   *)
(* cancel handler makes itself are inside the handler's try only.           *)
(***************************************************************************)
Written(rows, k) == SubSeq(rows, 1, IF k < Len(rows) THEN k ELSE Len(rows))

\* The insert with every notification failure answered 500.
CreateInsertWritesPropagating(bks, nid, caller, l, ci, co, g, price, kh, ka) ==
  LET b == NewBooking(caller, l, ci, co, g, price)
      id == BookingIdSeq[nid]
      toHost == SendBookingNotification(b, caller, "booked")
      toAdmins == NotifyAdmins(caller, "booking")
  IN  IF ~SchemaValid(b) \/ ~PreSave(b) THEN Res(500, "server", bks, nid, <<>>)
      ELSE IF kh < Len(toHost)
           THEN Res(500, "server", (id :> b) @@ bks, nid + 1, Written(toHost, kh))
      ELSE IF ka < Len(toAdmins)
           THEN Res(500, "server", (id :> b) @@ bks, nid + 1, toHost \o Written(toAdmins, ka))
      ELSE Res(201, "created", (id :> b) @@ bks, nid + 1, toHost \o toAdmins)

CreateInsertWrites(bks, nid, caller, l, ci, co, g, price, kh, ka) ==
  LET b == NewBooking(caller, l, ci, co, g, price)
      id == BookingIdSeq[nid]
      toHost == SendBookingNotification(b, caller, "booked")
      toAdmins == NotifyAdmins(caller, "booking")
  IN  IF ~SchemaValid(b) \/ ~PreSave(b) THEN Res(500, "server", bks, nid, <<>>)
      ELSE Res(201, "created", (id :> b) @@ bks, nid + 1,
               Written(toHost, kh) \o Written(toAdmins, ka))

UpdateResultWrites(bks, nid, caller, id, st, k) ==
  LET res == UpdateResult(bks, nid, caller, id, st)
  IN  [res EXCEPT !.created = Written(@, k)]

CancelDirect(b, caller) ==
  LET host == Listings[b.listing].host
      toGuest == IF b.guest = NoUser THEN <<>> ELSE <<Notif(b.guest, caller, "cancellation")>>
  IN  IF IsAdmin(caller) THEN toGuest \o <<Notif(host, caller, "cancellation")>>
      ELSE IF IsListingHost(b, caller) THEN toGuest
      ELSE IF IsGuest(b, caller) THEN <<Notif(host, caller, "cancellation")>>
      ELSE <<>>

CancelBroadcast(b, caller) ==
  IF IsAdmin(caller) THEN <<>>
  ELSE IF IsListingHost(b, caller) \/ IsGuest(b, caller) THEN NotifyAdmins(caller, "cancellation")
  ELSE <<>>

CancelResultWrites(bks, nid, caller, id, kd, kb) ==
  LET res == CancelResult(bks, nid, caller, id)
  IN  IF res.code # 200 THEN res
      ELSE LET direct == CancelDirect(res.bookings[id], caller)
               broadcast == CancelBroadcast(res.bookings[id], caller)
           IN  IF kd < Len(direct)
               THEN Res(500, "server", res.bookings, nid, Written(direct, kd))
               ELSE Res(200, "cancelled", res.bookings, nid, direct \o Written(broadcast, kb))

FaultPoints == 0..Len(AdminSeq)

\* Room for the rows of one create; the runs with failing writes stay within it.
MaxFaultNotifs == 1 + Len(AdminSeq)

ApplyFaulty(r) ==
  /\ BagCardinality(notifications) + Len(r.created) <= MaxFaultNotifs
  /\ Apply(r)

\* The creates of the runs with failing writes: one stay, by a plain user on
\* L1 and by an admin on L2.
FaultyCreateRequests ==
  {r \in CreateRequests :
     WellFormedCreate(r) /\ r.checkIn = 1 /\ r.checkOut = 2 /\ r.caller # "h1"}

CreateBookingFaulty ==
  \E r \in FaultyCreateRequests, kh \in {0, 1}, ka \in FaultPoints :
    /\ HasFreeId(nextId)
    /\ LET c == CreateCheck(bookings, nextId, r.caller, r.listing, r.checkIn, r.checkOut,
                            r.guests, r.totalPrice)
       IN  ApplyFaulty(IF c.code # 0 THEN c
                       ELSE CreateInsertWrites(bookings, nextId, r.caller, r.listing, r.checkIn,
                                               r.checkOut, r.guests, r.totalPrice, kh, ka))
    /\ UNCHANGED reqs

UpdateBookingFaulty ==
  \E caller \in Callers, id \in BookingIds, st \in {"confirmed", "cancelled"}, k \in FaultPoints :
    /\ ApplyFaulty(UpdateResultWrites(bookings, nextId, caller, id, st, k))
    /\ UNCHANGED reqs

CancelBookingFaulty ==
  \E caller \in Callers, id \in BookingIds, kd \in FaultPoints, kb \in FaultPoints :
    /\ ApplyFaulty(CancelResultWrites(bookings, nextId, caller, id, kd, kb))
    /\ UNCHANGED reqs

(***************************************************************************)
(* POST /bookings of the first route set as the two steps its awaits       *)
(* separate: the conflict query (Booking.findOne) and, in a later turn of  *)
(* the event loop, the insert (booking.save) with its notifications.       *)
(***************************************************************************)
Slots == {"r1", "r2"}

RaceCheck ==
  \E s \in Slots \ DOMAIN reqs, r \in CreateRequests :
    LET c == CreateCheck(bookings, nextId, r.caller, r.listing, r.checkIn, r.checkOut,
                         r.guests, r.totalPrice)
    IN  /\ reqs' = (s :> [req |-> r, phase |-> IF c.code = 0 THEN "checked" ELSE "done",
                          checked |-> c.code = 0, code |-> c.code, id |-> "none"]) @@ reqs
        /\ UNCHANGED <<bookings, nextId, notifications, listings>>

RaceInsert ==
  \E s \in DOMAIN reqs :
    /\ reqs[s].phase = "checked"
    /\ HasFreeId(nextId)
    /\ LET r == reqs[s].req
           res == CreateInsert(bookings, nextId, r.caller, r.listing, r.checkIn, r.checkOut,
                               r.guests, r.totalPrice)
       IN  /\ Apply(res)
           /\ reqs' = [reqs EXCEPT ![s].phase = "done", ![s].code = res.code,
                                   ![s].id = IF res.code = 201 THEN BookingIdSeq[nextId] ELSE "none"]

(***************************************************************************)
(* PUT /bookings/:id of the first route set as the two steps its awaits    *)
(* separate: Booking.findById with the authorisation, and, in a later turn *)
(* of the event loop, booking.save() on the document that was read.  The   *)
(* save sends the paths assigned a new value and tests no version of the   *)
(* stored document.                                                        *)
(***************************************************************************)
UpdateLoad(bks, caller, id) ==
  IF caller = Anonymous THEN 401
  ELSE IF id \notin DOMAIN bks THEN 404
  ELSE IF ~IsAdmin(caller) /\ ~IsListingHost(bks[id], caller) THEN 403
  ELSE 0

UpdateSaveResult(bks, nid, caller, id, st, doc) ==
  LET prev == doc.status
      b == [doc EXCEPT !.status = IF st = NoStatus THEN prev ELSE st]
  IN  IF ~SaveOk(b) THEN Res(500, "server", bks, nid, <<>>)
      ELSE IF b.status = prev THEN Res(200, "updated", bks, nid, <<>>)
      ELSE IF id \notin DOMAIN bks THEN Res(500, "server", bks, nid, <<>>)
      ELSE Res(200, "updated", [bks EXCEPT ![id].status = b.status], nid,
               IF b.status \in {"confirmed", "cancelled"}
               THEN SendBookingNotification(b, caller, b.status)
               ELSE <<>>)

UpdateSlots == {"r1"}
RaceStatusInputs == {"confirmed", "pending", NoStatus}

CreateBookingBase ==
  /\ HasFreeId(nextId)
  /\ Apply(Create(bookings, nextId, BaseCreate))
  /\ UNCHANGED reqs

UpdateRead ==
  \E s \in UpdateSlots \ DOMAIN reqs, caller \in Callers, id \in BookingIds,
     st \in RaceStatusInputs :
    LET c == UpdateLoad(bookings, caller, id)
    IN  /\ reqs' = (s :> [caller |-> caller, id |-> id, st |-> st,
                          phase |-> IF c = 0 THEN "loaded" ELSE "done", code |-> c,
                          doc |-> IF c = 0 THEN <<bookings[id]>> ELSE <<>>]) @@ reqs
        /\ UNCHANGED <<bookings, nextId, notifications, listings>>

UpdateSave ==
  \E s \in DOMAIN reqs :
    /\ reqs[s].phase = "loaded"
    /\ LET q == reqs[s]
           res == UpdateSaveResult(bookings, nextId, q.caller, q.id, q.st, q.doc[1])
       IN  /\ Apply(res)
           /\ reqs' = [reqs EXCEPT ![s].phase = "done", ![s].code = res.code]

Init ==
  /\ bookings = <<>>
  /\ nextId = 1
  /\ notifications = EmptyBag
  /\ reqs = <<>>
  /\ listings = ListingIds

Next ==
  \/ CheckAvailability
  \/ CreateBooking
  \/ UpdateBooking
  \/ DeleteBooking
  \/ AdminDeleteBooking
  \/ CancelBooking
  \/ RequestCancel
  \/ GetBooking

Spec == Init /\ [][Next]_vars

NextV2 ==
  \/ CreateBooking
  \/ CreateBookingV2
  \/ UpdateBookingV2
  \/ DeleteBookingV2

SpecV2 == Init /\ [][NextV2]_vars

NextFaults ==
  \/ CreateBookingFaulty
  \/ UpdateBookingFaulty
  \/ CancelBookingFaulty

SpecFaults == Init /\ [][NextFaults]_vars

NextListings ==
  \/ CreateBookingListed
  \/ HostBookings
  \/ DeleteListing

SpecListings == Init /\ [][NextListings]_vars

NextUpdateRace ==
  \/ CreateBookingBase
  \/ UpdateRead
  \/ UpdateSave
  \/ CancelBooking
  \/ AdminDeleteBooking

SpecUpdateRace == Init /\ [][NextUpdateRace]_vars

NextRace ==
  \/ RaceCheck
  \/ RaceInsert

SpecRace == Init /\ [][NextRace]_vars

(***************************************************************************)
(* Properties.                                                             *)
(***************************************************************************)
ActiveRow(b) == b.status \in {"pending", "confirmed"}
InactiveRow(b) == b.status \in {"cancelled", "completed", "refunded"}
HalfOpenOverlap(b, ci, co) == b.checkIn < co /\ b.checkOut > ci
QueryDates == 0..(MaxDate + 1)

ActiveOverlaps(l, ci, co) ==
  {id \in DOMAIN bookings :
     bookings[id].listing = l /\ ActiveRow(bookings[id]) /\ HalfOpenOverlap(bookings[id], ci, co)}

InactiveOverlaps(l, ci, co) ==
  {id \in DOMAIN bookings :
     bookings[id].listing = l /\ InactiveRow(bookings[id]) /\ HalfOpenOverlap(bookings[id], ci, co)}

Unchanged(res) == res.bookings = bookings /\ res.nextId = nextId /\ res.created = <<>>

\* C1: no listing has two pending/confirmed bookings whose half-open
\* intervals [checkIn, checkOut) overlap.
NoOverlapInvariant ==
  \A i \in DOMAIN bookings, j \in DOMAIN bookings :
    (i # j /\ bookings[i].listing = bookings[j].listing
       /\ ActiveRow(bookings[i]) /\ ActiveRow(bookings[j]))
    => (bookings[i].checkIn >= bookings[j].checkOut \/ bookings[i].checkOut <= bookings[j].checkIn)

\* C2: a create request that passed its conflict query is inserted whatever
\* was inserted since the query: it answers 201 and its row is stored as
\* requested, pending.
RaceInsertAfterCheckAlwaysStores ==
  \A s \in DOMAIN reqs :
    (reqs[s].phase = "done" /\ reqs[s].checked /\ reqs[s].req.totalPrice >= 0)
    => /\ reqs[s].code = 201
       /\ reqs[s].id \in DOMAIN bookings
       /\ bookings[reqs[s].id].status = "pending"
       /\ bookings[reqs[s].id].listing = reqs[s].req.listing
       /\ bookings[reqs[s].id].checkIn = reqs[s].req.checkIn
       /\ bookings[reqs[s].id].checkOut = reqs[s].req.checkOut

\* C2 witness: both concurrent requests answered 201 and left two pending
\* bookings of one listing with overlapping ranges.
RaceDoubleBooking ==
  /\ DOMAIN reqs = Slots
  /\ \A s \in Slots : reqs[s].phase = "done" /\ reqs[s].code = 201
  /\ reqs["r1"].id # reqs["r2"].id
  /\ LET a == bookings[reqs["r1"].id]
         b == bookings[reqs["r2"].id]
     IN  /\ a.listing = b.listing
         /\ a.status = "pending" /\ b.status = "pending"
         /\ HalfOpenOverlap(a, b.checkIn, b.checkOut)

\* C3: for checkIn < checkOut and a stored booking with bCheckIn < bCheckOut
\* the three-clause query matches exactly on half-open overlap, and
\* check-availability and create answer accordingly.
ConflictQueryIsHalfOpenOverlap ==
  /\ \A id \in DOMAIN bookings, ci \in QueryDates, co \in QueryDates :
       (ci < co /\ bookings[id].checkIn < bookings[id].checkOut)
       => (DateClauses(bookings[id], ci, co) <=> HalfOpenOverlap(bookings[id], ci, co))
  /\ (\A id \in DOMAIN bookings : bookings[id].checkIn < bookings[id].checkOut)
     => \A r \in CheckRequests :
          (r.caller # Anonymous /\ r.listing \in ActiveListings /\ r.checkIn < r.checkOut)
          => LET free == ActiveOverlaps(r.listing, r.checkIn, r.checkOut) = {}
                 chk == Check(bookings, nextId, r)
                 crt == CreateCheck(bookings, nextId, r.caller, r.listing, r.checkIn,
                                    r.checkOut, 2, 10)
             IN  /\ chk.code = 200
                 /\ chk.msg = "available" <=> free
                 /\ crt.msg = "conflict" <=> ~free

\* C3 witness: an active booking, a range touching it at a boundary that is
\* answered available and a range overlapping it that is answered unavailable.
BoundaryTouchAvailable ==
  \E id \in DOMAIN bookings, r \in AllCheckRequests, q \in AllCheckRequests :
    /\ ActiveRow(bookings[id])
    /\ r.caller # Anonymous /\ r.listing = bookings[id].listing /\ r.checkIn < r.checkOut
    /\ (r.checkIn = bookings[id].checkOut \/ r.checkOut = bookings[id].checkIn)
    /\ Check(bookings, nextId, r).msg = "available"
    /\ q.caller # Anonymous /\ q.listing = bookings[id].listing /\ q.checkIn < q.checkOut
    /\ HalfOpenOverlap(bookings[id], q.checkIn, q.checkOut)
    /\ q.checkIn # bookings[id].checkIn
    /\ Check(bookings, nextId, q).msg = "unavailable"

\* C4: a cancelled, completed or refunded booking does not block its dates:
\* where only such bookings overlap the range on the listing,
\* check-availability answers available and create answers 201.
InactiveBookingsDoNotBlock ==
  \A r \in AllCreateRequests :
    (/\ r.caller # Anonymous /\ r.listing \in ActiveListings /\ r.checkIn < r.checkOut
     /\ r.guests >= 1 /\ r.totalPrice >= 0
     /\ InactiveOverlaps(r.listing, r.checkIn, r.checkOut) # {}
     /\ ActiveOverlaps(r.listing, r.checkIn, r.checkOut) = {})
    => LET res == Create(bookings, nextId, r)
       IN  /\ CheckAvailabilityResult(bookings, nextId, r.caller, r.listing, r.checkIn,
                                      r.checkOut).msg = "available"
           /\ HasFreeId(nextId) =>
                /\ res.code = 201
                /\ DOMAIN res.bookings = DOMAIN bookings \cup {BookingIdSeq[nextId]}

\* C4 witness: the first booking is cancelled, completed or refunded and the
\* second, created later for overlapping dates of the same listing, is pending.
RebookedOverInactive ==
  /\ DOMAIN bookings = BookingIds
  /\ InactiveRow(bookings["b1"])
  /\ bookings["b2"].status = "pending"
  /\ bookings["b1"].listing = bookings["b2"].listing
  /\ HalfOpenOverlap(bookings["b1"], bookings["b2"].checkIn, bookings["b2"].checkOut)

\* C5: a create request whose conflict query finds a pending/confirmed
\* booking is answered 400 (not available) and writes nothing: no booking
\* row, no notification row.
ConflictRejectsWithoutWrites ==
  \A r \in AllCreateRequests :
    (/\ r.listing \in ActiveListings /\ r.checkIn < r.checkOut /\ r.guests >= 1
     /\ ConflictingBookings(bookings, r.listing, r.checkIn, r.checkOut) # {})
    => LET res == Create(bookings, nextId, r)
           resV2 == CreateV2(bookings, nextId, r)
       IN  /\ r.caller # Anonymous =>
                res.code = 400 /\ res.msg = "conflict" /\ Unchanged(res)
           /\ r.guests <= Listings[r.listing].maxGuests =>
                resV2.code = 400 /\ resV2.msg = "conflict" /\ Unchanged(resV2)

\* C5 witness: a pending/confirmed booking is stored, a booking id is free
\* and a well-formed request for dates it occupies is answered 400.
ConflictRejected ==
  /\ HasFreeId(nextId)
  /\ \E id \in DOMAIN bookings, r \in CreateRequests :
       /\ WellFormedCreate(r)
       /\ id \in ConflictingBookings(bookings, r.listing, r.checkIn, r.checkOut)
       /\ Create(bookings, nextId, r).msg = "conflict"

\* C6: a create request that meets the preconditions, by an authenticated
\* or an anonymous caller, is answered 201 and adds exactly one booking,
\* pending, payment pending, host the listing's host, guest the caller or
\* null for an anonymous caller.
CreateAcceptsAnyCaller ==
  \A r \in AllCreateRequests :
    (/\ r.listing \in ActiveListings /\ r.checkIn < r.checkOut
     /\ r.guests >= 1 /\ r.guests <= Listings[r.listing].maxGuests /\ r.totalPrice >= 0
     /\ ActiveOverlaps(r.listing, r.checkIn, r.checkOut) = {}
     /\ HasFreeId(nextId))
    => LET res == Create(bookings, nextId, r)
           id == BookingIdSeq[nextId]
       IN  /\ res.code = 201
           /\ DOMAIN res.bookings = DOMAIN bookings \cup {id}
           /\ \A i \in DOMAIN bookings : res.bookings[i] = bookings[i]
           /\ res.bookings[id].status = "pending"
           /\ res.bookings[id].paymentStatus = "pending"
           /\ res.bookings[id].host = Listings[r.listing].host
           /\ res.bookings[id].guest = IF r.caller = Anonymous THEN NoUser ELSE r.caller

\* C7: a create request for a listing that is missing or not active writes
\* nothing and is never answered 201; a well-formed one is answered 404.
\* Every stored booking is of an active listing.
OnlyActiveListingsBookable ==
  /\ \A id \in DOMAIN bookings : bookings[id].listing \in ActiveListings
  /\ \A r \in AllCreateRequests :
       r.listing \notin ActiveListings
       => LET res == Create(bookings, nextId, r)
              resV2 == CreateV2(bookings, nextId, r)
          IN  /\ res.code # 201 /\ Unchanged(res)
              /\ resV2.code # 201 /\ Unchanged(resV2)
              /\ (r.listing # MalformedId /\ r.guests >= 1) =>
                   /\ resV2.code = 404
                   /\ r.caller # Anonymous => res.code = 404

\* C7 witness: with a booking stored and an id free, requests for the
\* missing, the inactive and the pending listing are answered 404.
InactiveListingRefused ==
  /\ HasFreeId(nextId)
  /\ bookings # <<>>
  /\ \A l \in {"L0", "L3", "L4"} :
       Create(bookings, nextId, [BaseCreate EXCEPT !.listing = l]).code = 404

\* C8: every stored booking has guests >= 1 and guests <= maxGuests of its
\* listing.
GuestsWithinCapacity ==
  \A id \in DOMAIN bookings :
    /\ bookings[id].guests >= 1
    /\ bookings[id].guests <= Listings[bookings[id].listing].maxGuests

\* C9: every stored booking has checkOut strictly after checkIn.
CheckOutAfterCheckIn ==
  \A id \in DOMAIN bookings : bookings[id].checkOut > bookings[id].checkIn

\* C10: a status update by a caller who is neither the host of the
\* booking's listing nor an admin is answered 403 and changes nothing, in
\* either route set.
UpdateOnlyByHostOrAdmin ==
  \A caller \in Callers \ {Anonymous}, id \in DOMAIN bookings, st \in Statuses :
    (~IsAdmin(caller) /\ ~IsListingHost(bookings[id], caller))
    => /\ UpdateResult(bookings, nextId, caller, id, st).code = 403
       /\ Unchanged(UpdateResult(bookings, nextId, caller, id, st))
       /\ UpdateResultV2(bookings, nextId, caller, id,
                         [status |-> st, checkIn |-> NoDate, checkOut |-> NoDate,
                          host |-> NoHost]).code = 403
       /\ Unchanged(UpdateResultV2(bookings, nextId, caller, id,
                                   [status |-> st, checkIn |-> NoDate, checkOut |-> NoDate,
                          host |-> NoHost]))

TransitionTable ==
  {<<"pending", "confirmed">>, <<"pending", "cancelled">>,
   <<"confirmed", "cancelled">>, <<"confirmed", "completed">>, <<"confirmed", "refunded">>}

\* C11: a status update changes a booking's status only along an edge of the
\* transition table pending -> {confirmed, cancelled}, confirmed ->
\* {cancelled, completed, refunded}; any other requested change is rejected
\* and the status stays as it was.
StatusUpdateFollowsTable ==
  \A caller \in Callers, id \in DOMAIN bookings, st \in Statuses :
    LET res == UpdateResult(bookings, nextId, caller, id, st)
        prev == bookings[id].status
    IN  /\ res.bookings[id].status # prev => <<prev, res.bookings[id].status>> \in TransitionTable
        /\ (st # prev /\ <<prev, st>> \notin TransitionTable)
           => (res.code >= 400 /\ res.bookings[id].status = prev)

\* C12: a completed or refunded booking keeps its status under every cancel
\* request (PUT /:id/cancel, DELETE /:id) and every admin delete request.
TerminalStaysTerminal ==
  \A caller \in Callers, id \in DOMAIN bookings :
    bookings[id].status \in {"completed", "refunded"}
    => \A res \in {CancelResult(bookings, nextId, caller, id),
                   DeleteResult(bookings, nextId, caller, id),
                   AdminDeleteResult(bookings, nextId, caller, id)} :
         id \in DOMAIN res.bookings /\ res.bookings[id].status = bookings[id].status

\* C13: cancelling (PUT /:id/cancel) a booking that is already cancelled
\* leaves it cancelled and creates no notification row.
CancelIsIdempotent ==
  \A caller \in Callers, id \in DOMAIN bookings :
    bookings[id].status = "cancelled"
    => LET res == CancelResult(bookings, nextId, caller, id)
       IN  res.bookings[id].status = "cancelled" /\ res.created = <<>>

\* C14: an admin delete of a booking that is not cancelled sets it to
\* cancelled and keeps the row; an admin delete of a cancelled booking
\* removes the row.  A row is removed only if it was cancelled before the
\* call, and two consecutive admin deletes of a booking that is not cancelled
\* remove it.  No other row changes and no notification is created.
TwoStepDelete ==
  \A caller \in Callers, id \in DOMAIN bookings :
    LET r1 == AdminDeleteResult(bookings, nextId, caller, id)
        r2 == AdminDeleteResult(r1.bookings, r1.nextId, caller, id)
    IN  /\ id \notin DOMAIN r1.bookings => bookings[id].status = "cancelled"
        /\ \A j \in DOMAIN bookings \ {id} :
             j \in DOMAIN r1.bookings /\ r1.bookings[j] = bookings[j]
        /\ r1.created = <<>>
        /\ (caller # Anonymous /\ Role[caller] = "admin")
           => /\ r1.code = 200
              /\ bookings[id].status = "cancelled" => id \notin DOMAIN r1.bookings
              /\ bookings[id].status # "cancelled"
                 => /\ id \in DOMAIN r1.bookings
                    /\ r1.bookings[id] = [bookings[id] EXCEPT !.status = "cancelled"]
                    /\ r2.code = 200
                    /\ id \notin DOMAIN r2.bookings

\* C14 witness: the one booking created so far has been removed.
RowRemovedAfterCancel ==
  nextId = 2 /\ DOMAIN bookings = {}

\* C15: DELETE /:id/delete by an authenticated caller whose role is not
\* admin, the booking's host and guest included, is answered 403; no booking
\* is removed or changed.
AdminDeleteAdminOnly ==
  \A caller \in Callers \ {Anonymous}, id \in BookingIds :
    Role[caller] # "admin"
    => LET res == AdminDeleteResult(bookings, nextId, caller, id)
       IN  res.code = 403 /\ Unchanged(res)

\* C15 witness: a cancelled booking whose guest and whose listing's host are
\* not admins; the delete by either is answered 403.
NonAdminDeleteRefused ==
  \E id \in DOMAIN bookings :
    LET b == bookings[id]
    IN  /\ b.status = "cancelled"
        /\ b.guest # b.host
        /\ Role[b.guest] = "user" /\ Role[b.host] = "host"
        /\ AdminDeleteResult(bookings, nextId, b.guest, id).code = 403
        /\ AdminDeleteResult(bookings, nextId, b.host, id).code = 403

RowsFor(created, u) == Cardinality({i \in DOMAIN created : created[i].recipient = u})
AllCancellationsFrom(created, caller) ==
  \A i \in DOMAIN created : created[i].type = "cancellation" /\ created[i].sender = caller
Indicator(p) == IF p THEN 1 ELSE 0

\* C16: no request that cancels a booking (PUT /:id with status cancelled,
\* PUT /:id/cancel) creates a notification row whose recipient is the caller.
CancellerNotNotified ==
  \A caller \in Callers \ {Anonymous}, id \in DOMAIN bookings :
    /\ RowsFor(UpdateResult(bookings, nextId, caller, id, "cancelled").created, caller) = 0
    /\ RowsFor(CancelResult(bookings, nextId, caller, id).created, caller) = 0

HostCancelNotifiesGuestAndAdmins ==
  \A caller \in Callers \ {Anonymous}, id \in DOMAIN bookings :
    (Listings[bookings[id].listing].host = caller /\ Role[caller] # "admin")
    => LET b == bookings[id]
           res == CancelResult(bookings, nextId, caller, id)
       IN  /\ res.code = 200
           /\ res.bookings[id].status = "cancelled"
           /\ AllCancellationsFrom(res.created, caller)
           /\ \A u \in Users :
                RowsFor(res.created, u) =
                  Indicator(b.guest # NoUser /\ u = b.guest) + Indicator(Role[u] = "admin")

\* C18 witness: a cancelled booking with the host's cancellation rows stored
\* for the guest and for every admin.
HostCancelRecorded ==
  \E id \in DOMAIN bookings :
    LET b == bookings[id]
    IN  /\ b.status = "cancelled"
        /\ b.guest # b.host
        /\ Role[b.host] = "host"
        /\ BagIn(Notif(b.guest, b.host, "cancellation"), notifications)
        /\ \A u \in Users :
             Role[u] = "admin" => BagIn(Notif(u, b.host, "cancellation"), notifications)

\* C19: when an admin cancels (PUT /:id/cancel) the rows created are exactly
\* one cancellation for the booking's guest, if there is one, and one for the
\* listing's host; nothing is broadcast to the admins.
AdminCancelNotifiesGuestAndHost ==
  \A caller \in Callers \ {Anonymous}, id \in DOMAIN bookings :
    Role[caller] = "admin"
    => LET b == bookings[id]
           res == CancelResult(bookings, nextId, caller, id)
       IN  /\ res.code = 200
           /\ res.bookings[id].status = "cancelled"
           /\ AllCancellationsFrom(res.created, caller)
           /\ \A u \in Users :
                RowsFor(res.created, u) =
                  Indicator(b.guest # NoUser /\ u = b.guest)
                  + Indicator(u = Listings[b.listing].host)

\* C19 witness: a cancelled booking whose guest and host are not admins, with
\* an admin's cancellation rows stored for the guest and the host and for no
\* admin.
AdminCancelRecorded ==
  \E id \in DOMAIN bookings, a \in Users :
    LET b == bookings[id]
    IN  /\ Role[a] = "admin"
        /\ b.status = "cancelled"
        /\ Role[b.guest] = "user" /\ Role[b.host] = "host"
        /\ BagIn(Notif(b.guest, a, "cancellation"), notifications)
        /\ BagIn(Notif(b.host, a, "cancellation"), notifications)
        /\ \A u \in Users :
             Role[u] = "admin" => ~BagIn(Notif(u, a, "cancellation"), notifications)

\* C20: a status update (PUT /:id) creates notification rows only when the
\* resulting status differs from the previous one and is confirmed or
\* cancelled; a request naming the current status or no status changes
\* nothing and creates nothing; a change to confirmed creates exactly one
\* row, a confirmation addressed to the booking's guest.
UpdateNotifiesOnChangeOnly ==
  \A caller \in Callers, id \in DOMAIN bookings, st \in StatusInputs :
    LET res == UpdateResult(bookings, nextId, caller, id, st)
        prev == bookings[id].status
    IN  /\ res.created # <<>>
           => /\ res.bookings[id].status # prev
              /\ res.bookings[id].status \in {"confirmed", "cancelled"}
        /\ (st = NoStatus \/ st = prev) => Unchanged(res)
        /\ (res.code = 200 /\ st = "confirmed" /\ prev # "confirmed")
           => /\ res.bookings[id].status = "confirmed"
              /\ res.created = <<Notif(bookings[id].guest, caller, "confirmation")>>

\* C20 witness: a confirmed booking with the confirmation row stored for its
\* guest, on which repeating the confirm creates nothing.
ConfirmationRecorded ==
  \E id \in DOMAIN bookings :
    LET b == bookings[id]
    IN  /\ b.status = "confirmed"
        /\ BagIn(Notif(b.guest, b.host, "confirmation"), notifications)
        /\ UpdateResult(bookings, nextId, b.host, id, "confirmed").code = 200
        /\ UpdateResult(bookings, nextId, b.host, id, "confirmed").created = <<>>

\* C21: a create answered 201 creates exactly one row of type booking for
\* the listing's host and exactly one for each admin, and no row for anyone
\* else.
CreateNotifiesHostAndAdmins ==
  \A r \in CreateRequests :
    HasFreeId(nextId)
    => LET res == Create(bookings, nextId, r)
       IN  res.code = 201
           => /\ \A i \in DOMAIN res.created :
                   res.created[i].type = "booking" /\ res.created[i].sender = r.caller
              /\ \A u \in Users :
                   RowsFor(res.created, u) =
                     Indicator(u = Listings[r.listing].host) + Indicator(Role[u] = "admin")

\* C21 witness: one booking was created and nothing else was written: the
\* notifications are the booking rows of its host and of every admin.
CreateNotificationsRecorded ==
  /\ DOMAIN bookings = {"b1"}
  /\ BagCardinality(notifications) = 1 + Len(AdminSeq)
  /\ BagIn(Notif(bookings["b1"].host, bookings["b1"].guest, "booking"), notifications)
  /\ \A u \in Users :
       Role[u] = "admin" => BagIn(Notif(u, bookings["b1"].guest, "booking"), notifications)

\* C22: request-cancel by an authenticated caller who is not the host of the
\* booking's listing, an admin included, is answered 403 and creates
\* nothing; by that host it creates exactly one cancel-request row per admin
\* and leaves every booking as it is.
RequestCancelHostOnly ==
  \A caller \in Callers \ {Anonymous}, id \in DOMAIN bookings :
    LET res == RequestCancelResult(bookings, nextId, caller, id)
    IN  /\ Listings[bookings[id].listing].host # caller
           => res.code = 403 /\ Unchanged(res)
        /\ Listings[bookings[id].listing].host = caller
           => /\ res.code = 200
              /\ res.bookings = bookings
              /\ \A i \in DOMAIN res.created :
                   res.created[i].type = "cancel-request" /\ res.created[i].sender = caller
              /\ \A u \in Users :
                   RowsFor(res.created, u) = Indicator(Role[u] = "admin")

\* C22 witness: a booking that is still pending with its host's
\* cancel-request rows stored for every admin, on which an admin's own
\* request is answered 403.
CancelRequestRecorded ==
  \E id \in DOMAIN bookings :
    /\ bookings[id].status = "pending"
    /\ \A u \in Users :
         Role[u] = "admin"
         => /\ BagIn(Notif(u, bookings[id].host, "cancel-request"), notifications)
            /\ u \in Callers => RequestCancelResult(bookings, nextId, u, id).code = 403

\* C23: when a notification write of the create handler fails after the
\* booking was saved, the answer is still 201 and the booking is stored,
\* pending, with the other bookings as they were.
CreateSurvivesNotificationFailure ==
  \A r \in CreateRequests, kh \in {0, 1}, ka \in FaultPoints :
    (/\ HasFreeId(nextId)
     /\ Create(bookings, nextId, r).code = 201)
    => LET res == CreateInsertWrites(bookings, nextId, r.caller, r.listing, r.checkIn,
                                     r.checkOut, r.guests, r.totalPrice, kh, ka)
           id == BookingIdSeq[nextId]
       IN  /\ res.code = 201
           /\ DOMAIN res.bookings = DOMAIN bookings \cup {id}
           /\ res.bookings[id].status = "pending"
           /\ \A j \in DOMAIN bookings : res.bookings[j] = bookings[j]
           /\ Len(res.created) <= 1 + Len(AdminSeq)

\* C23 witness: a pending booking is stored and no notification row is: both
\* notification writes of its create failed.
CreatedWithoutNotifications ==
  /\ DOMAIN bookings = {"b1"}
  /\ bookings["b1"].status = "pending"
  /\ notifications = EmptyBag

\* C24: a notification write that fails after the new status was saved does
\* not fail the request: PUT /:id and PUT /:id/cancel, in the admin, host and
\* guest branch, still answer 200 and the booking keeps the new status.
TransitionSurvivesNotificationFailure ==
  \A caller \in Callers \ {Anonymous}, id \in DOMAIN bookings,
     kd \in FaultPoints, kb \in FaultPoints :
    /\ \A st \in {"confirmed", "cancelled"} :
         UpdateResult(bookings, nextId, caller, id, st).code = 200
         => LET res == UpdateResultWrites(bookings, nextId, caller, id, st, kd)
            IN  res.code = 200 /\ res.bookings[id].status = st
    /\ CancelResult(bookings, nextId, caller, id).code = 200
       => LET res == CancelResultWrites(bookings, nextId, caller, id, kd, kb)
          IN  res.code = 200 /\ res.bookings[id].status = "cancelled"

\* C25: GET /bookings/:id answers an authenticated caller 200 with the
\* booking if and only if the caller is the booking's guest, the host of its
\* listing or an admin, and 403 otherwise, for every stored booking.
ViewByGuestHostOrAdmin ==
  \A caller \in Callers \ {Anonymous}, id \in DOMAIN bookings :
    LET res == GetBookingResult(bookings, nextId, caller, id)
        allowed == \/ IsGuest(bookings[id], caller)
                   \/ IsListingHost(bookings[id], caller)
                   \/ IsAdmin(caller)
    IN  /\ res.code \in {200, 403}
        /\ res.code = 200 <=> allowed

\* C26: GET /bookings/host/bookings answers 403 to a caller whose role is
\* neither host nor admin; a host is returned exactly the bookings of the
\* listings that host owns; an admin is returned every booking.
HostBookingsScoped ==
  \A caller \in Callers \ {Anonymous} :
    LET res == HostBookingsResult(bookings, nextId, listings, caller)
    IN  /\ Role[caller] \notin {"host", "admin"} => res.code = 403
        /\ Role[caller] = "host" =>
              /\ res.code = 200
              /\ res.data = {id \in DOMAIN bookings :
                               /\ bookings[id].listing \in listings
                               /\ Listings[bookings[id].listing].host = caller}
        /\ Role[caller] = "admin" =>
              /\ res.code = 200
              /\ res.data = DOMAIN bookings

\* C27: the host stored on a booking is the host of its listing, copied when
\* the booking was created, and no booking operation writes it afterwards.
HostCopiedAtCreationAndKept ==
  \A id \in DOMAIN bookings : bookings[id].host = Listings[bookings[id].listing].host

Rejected(res) == res.code \in {400, 403, 404}

\* C28: a booking operation answered 400, 403 or 404 has written nothing:
\* the booking rows, their fields and the notification rows are as before
\* the request, for every operation of both route sets and every request.
RejectionWritesNothing ==
  /\ HasFreeId(nextId) =>
        \A r \in AllCreateRequests :
          /\ Rejected(Create(bookings, nextId, r)) => Unchanged(Create(bookings, nextId, r))
          /\ Rejected(CreateV2(bookings, nextId, r)) => Unchanged(CreateV2(bookings, nextId, r))
  /\ \A r \in AllCheckRequests :
        Rejected(Check(bookings, nextId, r)) => Unchanged(Check(bookings, nextId, r))
  /\ \A caller \in Callers, id \in BookingIds :
        /\ \A st \in StatusInputs :
              LET res == UpdateResult(bookings, nextId, caller, id, st)
              IN  Rejected(res) => Unchanged(res)
        /\ \A body \in UpdateBodies :
              LET res == UpdateResultV2(bookings, nextId, caller, id, body)
              IN  Rejected(res) => Unchanged(res)
        /\ \A res \in {DeleteResult(bookings, nextId, caller, id),
                        AdminDeleteResult(bookings, nextId, caller, id),
                        CancelResult(bookings, nextId, caller, id),
                        RequestCancelResult(bookings, nextId, caller, id),
                        DeleteResultV2(bookings, nextId, caller, id),
                        GetBookingResult(bookings, nextId, caller, id)} :
              Rejected(res) => Unchanged(res)

\* C28 witness: a pending booking g1 made of L1 is stored and an id is free;
\* a create for its dates is answered 400, the update and the cancel by the
\* other host h2 are answered 403, and the cancel of an absent id 404.
RejectionsOfEachKind ==
  \E id \in DOMAIN bookings, missing \in BookingIds \ DOMAIN bookings :
    LET b == bookings[id]
    IN  /\ b.status = "pending" /\ b.guest = "g1" /\ b.listing = "L1"
        /\ HasFreeId(nextId)
        /\ Create(bookings, nextId, [BaseCreate EXCEPT !.checkIn = b.checkIn,
                                                       !.checkOut = b.checkOut]).code = 400
        /\ UpdateResult(bookings, nextId, "h2", id, "confirmed").code = 403
        /\ CancelResult(bookings, nextId, "h2", id).code = 403
        /\ CancelResult(bookings, nextId, "g1", missing).code = 404

\* C29: PUT /bookings/:id, PUT /bookings/:id/cancel, DELETE /bookings/:id and
\* the first step of DELETE /bookings/:id/delete change nothing of a booking
\* but its status: listing, host, guest, checkIn, checkOut, guests,
\* totalPrice and paymentStatus are as before the request.
StatusOperationsChangeOnlyStatus ==
  \A caller \in Callers, id \in DOMAIN bookings :
    \A res \in {UpdateResult(bookings, nextId, caller, id, st) : st \in StatusInputs}
               \cup {UpdateResultV2(bookings, nextId, caller, id, body) : body \in UpdateBodies}
               \cup {CancelResult(bookings, nextId, caller, id),
                     DeleteResult(bookings, nextId, caller, id),
                     DeleteResultV2(bookings, nextId, caller, id),
                     AdminDeleteResult(bookings, nextId, caller, id)} :
      id \in DOMAIN res.bookings
      => [res.bookings[id] EXCEPT !.status = bookings[id].status] = bookings[id]

\* C30: when a status update read a booking before a cancel (PUT /:id/cancel
\* or an admin delete) saved status cancelled, the update's later save does
\* not put pending or confirmed over the stored cancelled status.
StaleUpdateKeepsCancelled ==
  [][\A s \in DOMAIN reqs :
       LET q == reqs[s]
       IN  (/\ q.phase = "loaded"
            /\ reqs'[s].phase = "done"
            /\ q.doc[1].status # "cancelled"
            /\ q.id \in DOMAIN bookings
            /\ bookings[q.id].status = "cancelled")
           => /\ q.id \in DOMAIN bookings'
              /\ bookings'[q.id].status = "cancelled"]_vars

====
